---- MODULE Spec2Model ----
(***************************************************************************)
(* A model of GdwAwsLambda (src/src/main.ts): the deploy operation with    *)
(* its file reads, remote calls and promise chain, and the pure            *)
(* environment comparison used by the configuration equality check.        *)
(*                                                                         *)
(* One action is one event-loop callback (the call of deploy, or the       *)
(* completion callback of a file read or of a remote call) together with   *)
(* every promise reaction it triggers: reactions are microtasks, and they  *)
(* all run before the next completion callback is dispatched.              *)
(***************************************************************************)
EXTENDS Integers, Sequences, FiniteSets, TLC

(***************************************************************************)
(* JavaScript values.  Every value is a record tagged by t, so that two    *)
(* values of different types compare unequal, as they do under ===.        *)
(* An object is the sequence of its own <<key, value>> pairs, in the       *)
(* order Object.keys lists them.                                           *)
(***************************************************************************)
Undef == [t |-> "undefined"]

Null == [t |-> "null"]

Str(s) == [t |-> "str", s |-> s]

Num(n) == [t |-> "num", n |-> n]

Bool(b) == [t |-> "bool", b |-> b]

Obj(kv) == [t |-> "obj", kv |-> kv]

Arr(a) == [t |-> "arr", a |-> a]

\* the bytes of a file, as fs.readFile yields them without an encoding
Buf(b) == [t |-> "buf", b |-> b]

\* a template string with the value it interpolates
Fmt(template, arg) == [t |-> "str", s |-> template, arg |-> arg]

\* Object.keys(o): the own keys in order (the indices, for an array)
Keys(o) ==
    IF o.t = "obj" THEN [i \in 1..Len(o.kv) |-> o.kv[i][1]]
    ELSE IF o.t = "arr" THEN [i \in 1..Len(o.a) |-> i]
    ELSE <<>>

\* o.hasOwnProperty(k)
HasOwn(o, k) ==
    o.t = "obj" /\ \E i \in 1..Len(o.kv) : o.kv[i][1] = k

\* o[k] / o.k : undefined when the key is not an own key
Get(o, k) ==
    IF HasOwn(o, k)
    THEN o.kv[CHOOSE i \in 1..Len(o.kv) : o.kv[i][1] = k][2]
    ELSE Undef

\* the truthiness test of `if (v)` and `v && ...`
Truthy(v) ==
    CASE v.t = "undefined" -> FALSE
      [] v.t = "null" -> FALSE
      [] v.t = "bool" -> v.b
      [] v.t = "num" -> v.n # 0
      [] v.t = "str" -> v.s # ""
      [] OTHER -> TRUE

\* typeof obj === 'object' && obj !== null
isObject(obj) == obj.t \in {"obj", "arr"}

isEmpty(obj) ==
    \/ obj = Undef
    \/ obj = Null
    \/ (isObject(obj) /\ Len(Keys(obj)) = 0)
    \/ (obj.t = "arr" /\ Len(obj.a) = 0)

isNEString(value) == value.t = "str" /\ value.s # ""

(***************************************************************************)
(* compareEnvironment                                                      *)
(***************************************************************************)
\* the sub-expression the first three branches share:
\*   isEmpty(env) || isObject(env) && env && isEmpty(env.Variables)
EnvIsBlank(env) ==
    isEmpty(env) \/ (isObject(env) /\ Truthy(env) /\ isEmpty(Get(env, "Variables")))

\*   isObject(env) && env && isObject(env.Variables) &&
\*   Object.keys(env.Variables).length > 0
EnvHasVariables(env) ==
    /\ isObject(env)
    /\ Truthy(env)
    /\ isObject(Get(env, "Variables"))
    /\ Len(Keys(Get(env, "Variables"))) > 0

\* the for loop of the last branch, from index i on: false at the first key
\* of k1 whose two values differ
RECURSIVE CompareLoop(_, _, _, _)
CompareLoop(v1, v2, k1, i) ==
    IF i > Len(k1) THEN TRUE
    ELSE IF Get(v1, k1[i]) # Get(v2, k1[i]) THEN FALSE
    ELSE CompareLoop(v1, v2, k1, i + 1)

\* a comparison that forgets the l1 === l2 test
CompareEnvironmentNoLength(env1, env2) ==
    IF EnvIsBlank(env1) /\ EnvIsBlank(env2) THEN TRUE
    ELSE IF EnvHasVariables(env2) /\ EnvIsBlank(env1) THEN FALSE
    ELSE IF EnvHasVariables(env1) /\ EnvIsBlank(env2) THEN FALSE
    ELSE CompareLoop(Get(env1, "Variables"), Get(env2, "Variables"),
                     Keys(Get(env1, "Variables")), 1)

compareEnvironment(env1, env2) ==
    IF EnvIsBlank(env1) /\ EnvIsBlank(env2) THEN TRUE
    ELSE IF EnvHasVariables(env2) /\ EnvIsBlank(env1) THEN FALSE
    ELSE IF EnvHasVariables(env1) /\ EnvIsBlank(env2) THEN FALSE
    ELSE IF /\ isObject(env1) /\ Truthy(env1)
            /\ isObject(Get(env1, "Variables")) /\ Truthy(Get(env1, "Variables"))
            /\ isObject(env2) /\ Truthy(env2)
            /\ isObject(Get(env2, "Variables")) /\ Truthy(Get(env2, "Variables"))
    THEN LET v1 == Get(env1, "Variables")
             v2 == Get(env2, "Variables")
             k1 == Keys(v1)
             k2 == Keys(v2)
         IN  IF Len(k1) = Len(k2) THEN CompareLoop(v1, v2, k1, 1) ELSE FALSE
    ELSE FALSE

(***************************************************************************)
(* The environments the comparison is applied to.                          *)
(***************************************************************************)
MaxVars == 2

VarNames == {"X", "Y", "Z"}

VarValues == {"1", "2"}

\* sequences of at most n <<name, value>> pairs with distinct names
RECURSIVE PairSeqs(_)
PairSeqs(n) ==
    IF n = 0 THEN {<<>>}
    ELSE LET shorter == PairSeqs(n - 1)
         IN  shorter \cup
             { Append(s, <<k, Str(v)>>) :
                 s \in {q \in shorter : Len(q) = n - 1},
                 k \in VarNames, v \in VarValues }

DistinctNames(s) == \A i, j \in 1..Len(s) : i # j => s[i][1] # s[j][1]

VariableMaps == { Obj(s) : s \in {q \in PairSeqs(MaxVars) : DistinctNames(q)} }

\* an EnvironmentResponse: Variables present or not, an Error member present
\* or not; or no environment at all
Environments ==
    {Undef, Null, Obj(<<>>), Obj(<< <<"Error", Obj(<<>>)>> >>)}
    \cup { Obj(<< <<"Variables", m>> >>) : m \in VariableMaps }
    \cup { Obj(<< <<"Error", Obj(<<>>)>>, <<"Variables", m>> >>) : m \in VariableMaps }

XY12 == Obj(<< <<"Variables", Obj(<< <<"X", Str("1")>>, <<"Y", Str("2")>> >>)>> >>)

YX21 == Obj(<< <<"Variables", Obj(<< <<"Y", Str("2")>>, <<"X", Str("1")>> >>)>> >>)

Y2 == Obj(<< <<"Variables", Obj(<< <<"Y", Str("2")>> >>)>> >>)

X1 == Obj(<< <<"Variables", Obj(<< <<"X", Str("1")>> >>)>> >>)

X2 == Obj(<< <<"Variables", Obj(<< <<"X", Str("2")>> >>)>> >>)

NoVars == Obj(<< <<"Variables", Obj(<<>>)>> >>)

(***************************************************************************)
(* Constants of the class and the shape validators.                        *)
(***************************************************************************)
FILE_LAMBDA_CONFIG == "lambda-config.json"

FILE_LAMBDA_SECRETS == "lambda-secrets.json"

FILE_LAMBDA_TESTS == "lambda-tests.json"

INFO_FUNCTION_CODE_UO_TO_DATE == "Function code up-to-date"

INFO_DEPLOY_COMPLETE == "Lambda function deploy finished"

ERR_LAMBDA_NOT_FOUND == "Lambda not found"

ERR_LAMBDA_CONFIG == "Lambda config different"

AWS_LAMBDA_VERSION == "2015-03-31"

\* typeof obj === 'object' && obj !== null && obj.hasOwnProperty(k) for all k
HasAllOwn(obj, ks) == isObject(obj) /\ \A k \in ks : HasOwn(obj, k)

isLambdaConfig(obj) ==
    HasAllOwn(obj, {"archiveName", "FunctionName", "Description", "Handler",
                    "Publish", "Runtime", "MemorySize", "Timeout"})

isLambdaSecrets(obj) ==
    HasAllOwn(obj, {"region", "profile", "accessKeyId", "secretAccessKey",
                    "Role", "Environment"})

isLambdaTest(obj) == HasAllOwn(obj, {"context", "events"})

\* checkObject: the empty string when the object has the shape of checkType
checkObject(object, checkType) ==
    CASE checkType = FILE_LAMBDA_CONFIG ->
            IF isLambdaConfig(object) THEN Str("") ELSE Str("Invalid lambda config")
      [] checkType = FILE_LAMBDA_SECRETS ->
            IF isLambdaSecrets(object) THEN Str("") ELSE Str("Invalid lambda secrets")
      [] checkType = FILE_LAMBDA_TESTS ->
            IF object.t = "arr" /\ \A i \in 1..Len(object.a) : isLambdaTest(object.a[i])
            THEN Str("") ELSE Str("Invalid lambda tests")
      [] OTHER -> Fmt("Invalid check type %", checkType)

(***************************************************************************)
(* Promises: not created yet, pending, fulfilled with v or rejected with v *)
(***************************************************************************)
NoPromise == [st |-> "none", v |-> Undef]

Pending == [st |-> "pending", v |-> Undef]

Fulfilled(v) == [st |-> "fulfilled", v |-> v]

Rejected(v) == [st |-> "rejected", v |-> v]

(***************************************************************************)
(* Files: missing, holding text that is not JSON, or holding the JSON text *)
(* of a value.                                                             *)
(***************************************************************************)
Missing == [t |-> "missing"]

BadJson == [t |-> "badjson"]

Json(v) == [t |-> "json", v |-> v]

\* readObject: the state its promise reaches once the fs.readFile callback
\* has run.  After a JSON.parse failure the promise is rejected and object
\* stays undefined; a parsed value that is falsy settles nothing.
readObject(file, name, checkType) ==
    IF file = Missing THEN Rejected(Fmt("Failed to read file %", name))
    ELSE IF file = BadJson THEN Rejected(Str("Invalid JSON"))
    ELSE IF ~Truthy(file.v) THEN Pending
    ELSE IF checkType # ""
         THEN IF Truthy(checkObject(file.v, checkType))
              THEN Rejected(checkObject(file.v, checkType))
              ELSE Fulfilled(file.v)
         ELSE Fulfilled(file.v)

\* the reaction readConfig attaches to the read of lambda-config.json
ConfigThen(r) ==
    IF r.st # "fulfilled" THEN r
    ELSE IF /\ isLambdaConfig(r.v)
            /\ isNEString(Get(r.v, "FunctionName"))
            /\ isNEString(Get(r.v, "Handler"))
         THEN Fulfilled(r.v)
         ELSE Rejected(Str("Invalid Lambda config"))

\* the reaction readConfig attaches to the read of lambda-secrets.json
SecretsThen(r) ==
    IF r.st # "fulfilled" THEN r
    ELSE IF /\ isLambdaSecrets(r.v)
            /\ isNEString(Get(r.v, "region"))
            /\ isNEString(Get(r.v, "Role"))
         THEN Fulfilled(r.v)
         ELSE Rejected(Str("Invalid Lambda secrets"))

(***************************************************************************)
(* The remote client and the parameters of its calls.                      *)
(***************************************************************************)
\* options that prefer the explicit keys to the profile
createLambdaOptionsKeysFirst(secrets) ==
    LET base == << <<"apiVersion", Str(AWS_LAMBDA_VERSION)>>,
                   <<"region", Get(secrets, "region")>> >>
    IN  IF /\ isNEString(Get(secrets, "accessKeyId"))
           /\ isNEString(Get(secrets, "secretAccessKey"))
        THEN Obj(base \o
                 << <<"accessKeyId", Get(secrets, "accessKeyId")>>,
                    <<"secretAccessKey", Get(secrets, "secretAccessKey")>> >>)
        ELSE IF isNEString(Get(secrets, "profile"))
             THEN Obj(base \o << <<"credentials",
                      Obj(<< <<"profile", Get(secrets, "profile")>> >>)>> >>)
             ELSE Obj(base)

\* lambdaOptions as createLambdaService builds them from the secrets
createLambdaOptions(secrets) ==
    LET base == << <<"apiVersion", Str(AWS_LAMBDA_VERSION)>>,
                   <<"region", Get(secrets, "region")>> >>
    IN  IF isNEString(Get(secrets, "profile"))
        THEN Obj(base \o << <<"credentials",
                 Obj(<< <<"profile", Get(secrets, "profile")>> >>)>> >>)
        ELSE IF /\ isNEString(Get(secrets, "accessKeyId"))
                /\ isNEString(Get(secrets, "secretAccessKey"))
             THEN Obj(base \o
                      << <<"accessKeyId", Get(secrets, "accessKeyId")>>,
                         <<"secretAccessKey", Get(secrets, "secretAccessKey")>> >>)
             ELSE Obj(base)

\* a call of the remote client: the operation and its parameters
Call(op, params) == [op |-> op, params |-> params]

getFunctionParams(cfg) ==
    Obj(<< <<"FunctionName", Get(cfg, "FunctionName")>> >>)

createFunctionParams(cfg, secrets, result) ==
    Obj(<< <<"FunctionName", Get(cfg, "FunctionName")>>,
           <<"Description", Get(cfg, "Description")>>,
           <<"Handler", Get(cfg, "Handler")>>,
           <<"Runtime", Get(cfg, "Runtime")>>,
           <<"MemorySize", Get(cfg, "MemorySize")>>,
           <<"Timeout", Get(cfg, "Timeout")>>,
           <<"Publish", Get(cfg, "Publish")>>,
           <<"Role", Get(secrets, "Role")>>,
           <<"Code", Obj(<< <<"ZipFile", result>> >>)>> >>)

updateConfigParams(cfg, secrets) ==
    Obj(<< <<"FunctionName", Get(cfg, "FunctionName")>>,
           <<"Description", Get(cfg, "Description")>>,
           <<"Handler", Get(cfg, "Handler")>>,
           <<"Runtime", Get(cfg, "Runtime")>>,
           <<"MemorySize", Get(cfg, "MemorySize")>>,
           <<"Timeout", Get(cfg, "Timeout")>>,
           <<"Role", Get(secrets, "Role")>>,
           <<"Environment", Get(secrets, "Environment")>> >>)

\* the request both updateCode calls of updateFunctionCode build: result is
\* the value the preceding promise was fulfilled with
updateCodeParams(cfg, result, dryRun) ==
    Obj(<< <<"FunctionName", Get(cfg, "FunctionName")>>,
           <<"Publish", Get(cfg, "Publish")>>,
           <<"ZipFile", result>>,
           <<"DryRun", Bool(dryRun)>> >>)

\* a check that reads the Configuration member and leaves Timeout out
checkLambdaConfigWithoutTimeout(config, cfg, secrets) ==
    LET c == Get(config, "Configuration")
        isEqual ==
            /\ Truthy(c)
            /\ Get(c, "FunctionName") = Get(cfg, "FunctionName")
            /\ Get(c, "Description") = Get(cfg, "Description")
            /\ Get(c, "Handler") = Get(cfg, "Handler")
            /\ Get(c, "Runtime") = Get(cfg, "Runtime")
            /\ Get(c, "MemorySize") = Get(cfg, "MemorySize")
            /\ Get(c, "Role") = Get(secrets, "Role")
    IN  IF isEqual
        THEN compareEnvironment(Get(c, "Environment"), Get(secrets, "Environment"))
        ELSE FALSE

\* checkLambdaConfig(config), with this.lambdaCfg and this.lambdaSecrets
checkLambdaConfig(config, cfg, secrets) ==
    LET isEqual ==
            /\ Truthy(config)
            /\ Get(config, "FunctionName") = Get(cfg, "FunctionName")
            /\ Get(config, "Description") = Get(cfg, "Description")
            /\ Get(config, "Handler") = Get(cfg, "Handler")
            /\ Get(config, "Runtime") = Get(cfg, "Runtime")
            /\ Get(config, "MemorySize") = Get(cfg, "MemorySize")
            /\ Get(config, "Timeout") = Get(cfg, "Timeout")
            /\ Get(config, "Role") = Get(secrets, "Role")
    IN  IF isEqual
        THEN compareEnvironment(Get(config, "Environment"),
                                Get(secrets, "Environment"))
        ELSE FALSE

(***************************************************************************)
(* The documents and remote answers the deploy is run against.             *)
(***************************************************************************)
ConfigDoc(archiveName, functionName, handler) ==
    Obj(<< <<"archiveName", Str(archiveName)>>,
           <<"FunctionName", Str(functionName)>>,
           <<"Description", Str("demo")>>,
           <<"Handler", Str(handler)>>,
           <<"Publish", Bool(FALSE)>>,
           <<"Runtime", Str("nodejs6.10")>>,
           <<"MemorySize", Num(128)>>,
           <<"Timeout", Num(3)>> >>)

SecretsDoc(region, profile, accessKeyId, secretAccessKey, role, env) ==
    Obj(<< <<"region", Str(region)>>,
           <<"profile", Str(profile)>>,
           <<"accessKeyId", Str(accessKeyId)>>,
           <<"secretAccessKey", Str(secretAccessKey)>>,
           <<"Role", Str(role)>>,
           <<"Environment", env>> >>)

\* a config document without its Timeout member
ConfigDocNoTimeout ==
    Obj(<< <<"archiveName", Str("fn.zip")>>,
           <<"FunctionName", Str("fn")>>,
           <<"Description", Str("demo")>>,
           <<"Handler", Str("index.handler")>>,
           <<"Publish", Bool(FALSE)>>,
           <<"Runtime", Str("nodejs6.10")>>,
           <<"MemorySize", Num(128)>> >>)

\* a secrets document without its Environment member
SecretsDocNoEnvironment ==
    Obj(<< <<"region", Str("eu-west-1")>>,
           <<"profile", Str("")>>,
           <<"accessKeyId", Str("")>>,
           <<"secretAccessKey", Str("")>>,
           <<"Role", Str("role")>> >>)

ConfigFiles ==
    {Missing, BadJson, Json(Null), Json(Num(0)), Json(Num(1)), Json(Arr(<<>>)),
     Json(ConfigDocNoTimeout),
     Json(ConfigDoc("fn.zip", "", "index.handler")),
     Json(ConfigDoc("fn.zip", "fn", "")),
     Json(ConfigDoc("fn.zip", "fn", "index.handler")),
     Json(ConfigDoc("", "fn", "index.handler"))}

SecretsFiles ==
    {Missing, BadJson, Json(Null), Json(Bool(FALSE)), Json(Str("secret")),
     Json(SecretsDocNoEnvironment),
     Json(SecretsDoc("", "", "", "", "role", NoVars)),
     Json(SecretsDoc("eu-west-1", "", "", "", "", NoVars))}
    \cup { Json(SecretsDoc("eu-west-1", p, k, s, "role", e)) :
             p \in {"", "dev"}, k \in {"", "AKIA"}, s \in {"", "shh"},
             e \in {NoVars, X1} }

\* deploy's options argument
DeployOptions ==
    {Undef, Obj(<<>>),
     Obj(<< <<"create", Bool(TRUE)>> >>),
     Obj(<< <<"updateConfig", Bool(TRUE)>> >>),
     Obj(<< <<"create", Bool(TRUE)>>, <<"updateConfig", Bool(TRUE)>> >>)}

CodeHashes == {"sha-a", "sha-b"}

\* the FunctionConfiguration of the deployed function
RemoteConfiguration(timeout, env, sha) ==
    Obj(<< <<"FunctionName", Str("fn")>>,
           <<"Description", Str("demo")>>,
           <<"Handler", Str("index.handler")>>,
           <<"Runtime", Str("nodejs6.10")>>,
           <<"MemorySize", Num(128)>>,
           <<"Timeout", Num(timeout)>>,
           <<"Role", Str("role")>>,
           <<"CodeSha256", Str(sha)>> >>
        \o IF env = Undef THEN <<>> ELSE << <<"Environment", env>> >>)

\* a GetFunctionResponse: the Configuration and Code members, both optional
GetFunctionResponses ==
    {Obj(<< <<"Code", Obj(<<>>)>> >>)}
    \cup { Obj(<< <<"Configuration", RemoteConfiguration(t, e, h)>>,
                  <<"Code", Obj(<<>>)>> >>) :
             t \in {3, 10}, e \in {Undef, X1}, h \in CodeHashes }

\* the error of a failed remote call
AwsError(code) == Obj(<< <<"code", Str(code)>> >>)

(***************************************************************************)
(* State.                                                                  *)
(***************************************************************************)
VARIABLES
    env1, env2,     \* the arguments of one compareEnvironment application
    envDone,        \* whether it has been applied
    envResult,      \* what it returned
    envSwapped,     \* what it returned with the arguments exchanged
    cfgFile,        \* lambda-config.json on disk
    secFile,        \* lambda-secrets.json on disk
    options,        \* the argument of deploy
    pending,        \* the completion callbacks that have yet to run
    lambdaCfg, lambdaSecrets, lambda, lambdaGetInfo,   \* fields of the object
    cfgP, secP,     \* the two promises readConfig joins
    deployP,        \* the promise deploy returns
    configP,        \* the promise of updateConfig()
    codeP,          \* the promise of updateFunctionCode()
    calls,          \* the remote calls issued so far, in order
    completed,      \* the callbacks that have run: operation, error and data
    firstFail,      \* the reason of the first operation of the batch to fail
    testsFile,      \* lambda-tests.json on disk
    testFileName,   \* the argument of test
    testReads,      \* the reads of test whose callback has yet to run
    testCfgP, testTestsP,   \* the two promises test joins
    testP,          \* the promise test returns
    lambdaTests,    \* field of the object
    loads,          \* the module paths passed to require, in order
    invoked,        \* the handler invocations made so far, in order
    eventP,         \* the promise of each invocation (executeEventTest)
    contextP,       \* the promise of each test case (executeContextTest)
    firstErr,       \* the error of the first invocation to fail
    initRuns,       \* how many times init has been called
    initPending,    \* the file-system callbacks of init that have yet to run
    checkP,         \* the three promises init joins (checkAndInit)
    initP,          \* the promise init returns
    writes,         \* the fs.writeFile calls issued so far, in order
    startFiles      \* the three files as each call of init found them

envVars == <<env1, env2, envDone, envResult, envSwapped>>

deployVars ==
    <<cfgFile, secFile, options, pending, lambdaCfg, lambdaSecrets, lambda,
      lambdaGetInfo, cfgP, secP, deployP, configP, codeP, calls, completed,
      firstFail>>

testVars ==
    <<testsFile, testFileName, testReads, testCfgP, testTestsP, testP,
      lambdaTests, loads, invoked, eventP, contextP, firstErr>>

initVars == <<initRuns, initPending, checkP, initP, writes, startFiles>>

vars == <<envVars, deployVars, testVars, initVars>>

\* the object after construction, before deploy is called
DeployIdle ==
    /\ options = Undef
    /\ pending = {}
    /\ lambdaCfg = Undef
    /\ lambdaSecrets = Undef
    /\ lambda = Undef
    /\ lambdaGetInfo = Undef
    /\ cfgP = NoPromise
    /\ secP = NoPromise
    /\ deployP = NoPromise
    /\ configP = NoPromise
    /\ codeP = NoPromise
    /\ calls = <<>>
    /\ completed = {}
    /\ firstFail = Undef

\* the object before test is called
TestIdle ==
    /\ testFileName = Undef
    /\ testReads = {}
    /\ testCfgP = NoPromise
    /\ testTestsP = NoPromise
    /\ testP = NoPromise
    /\ lambdaTests = Undef
    /\ loads = <<>>
    /\ invoked = <<>>
    /\ eventP = <<>>
    /\ contextP = <<>>
    /\ firstErr = Undef

\* the object before init is called
InitIdle ==
    /\ initRuns = 0
    /\ initPending = {}
    /\ checkP = <<>>
    /\ initP = NoPromise
    /\ writes = <<>>
    /\ startFiles = <<>>

EnvIdle ==
    /\ env1 = Undef
    /\ env2 = Undef
    /\ envDone = TRUE
    /\ envResult = TRUE
    /\ envSwapped = TRUE

(***************************************************************************)
(* compareEnvironment applied to a pair of environments.                   *)
(***************************************************************************)
EnvInit ==
    /\ env1 \in Environments
    /\ env2 \in Environments
    /\ envDone = FALSE
    /\ envResult = FALSE
    /\ envSwapped = FALSE
    /\ cfgFile = Missing
    /\ secFile = Missing
    /\ testsFile = Missing
    /\ DeployIdle
    /\ TestIdle
    /\ InitIdle

\* GdwAwsLambda.compareEnvironment applied to the two environments, in both
\* orders
CompareEnv ==
    /\ ~envDone
    /\ envDone' = TRUE
    /\ envResult' = compareEnvironment(env1, env2)
    /\ envSwapped' = compareEnvironment(env2, env1)
    /\ UNCHANGED <<env1, env2, deployVars, testVars, initVars>>

EnvNext == CompareEnv

SpecEnv == EnvInit /\ [][EnvNext]_vars

(***************************************************************************)
(* deploy                                                                  *)
(***************************************************************************)
\* Promise.race(ps), when ps[i] has just settled
PromiseRaceStep(all, ps, i) ==
    IF all.st # "pending" THEN all
    ELSE IF ps[i].st = "rejected" THEN Rejected(ps[i].v)
    ELSE IF ps[i].st = "fulfilled" THEN Fulfilled(Arr(<<ps[i].v>>))
    ELSE all

\* a join that reports the latest rejection instead of the first
PromiseAllStepLatestRejection(all, ps, i) ==
    IF ps[i].st = "rejected" /\ all.st # "fulfilled" THEN Rejected(ps[i].v)
    ELSE IF all.st # "pending" THEN all
    ELSE IF \A j \in 1..Len(ps) : ps[j].st = "fulfilled"
         THEN Fulfilled(Arr([j \in 1..Len(ps) |-> ps[j].v]))
         ELSE all

\* Promise.all(ps), when ps[i] has just settled: all is the state of the
\* joined promise before, ps the states of its elements now.  It rejects
\* with the first rejection and is fulfilled once every element is.
PromiseAllStep(all, ps, i) ==
    IF all.st # "pending" THEN all
    ELSE IF ps[i].st = "rejected" THEN Rejected(ps[i].v)
    ELSE IF \A j \in 1..Len(ps) : ps[j].st = "fulfilled"
         THEN Fulfilled(Arr([j \in 1..Len(ps) |-> ps[j].v]))
         ELSE all

\* options && options.create
WantsCreate(opts) == Truthy(opts) /\ Truthy(Get(opts, "create"))

\* a test that reads the create option instead
WantsUpdateConfigReadsCreate(opts) == Truthy(opts) /\ Truthy(Get(opts, "create"))

\* options && options.updateConfig
WantsUpdateConfig(opts) == Truthy(opts) /\ Truthy(Get(opts, "updateConfig"))

\* a callback that resolves with the not-found marker whatever the options
checkLambdaIgnoresCreate(err, data, opts) ==
    IF Truthy(err)
    THEN IF Get(err, "code") = Str("ResourceNotFoundException")
         THEN Fulfilled(Str(ERR_LAMBDA_NOT_FOUND))
         ELSE Rejected(Str("Lambda getFunction Error"))
    ELSE Fulfilled(data)

\* a callback that takes every error for not-found
checkLambdaEveryErrorNotFound(err, data, opts) ==
    IF Truthy(err)
    THEN IF WantsCreate(opts)
         THEN Fulfilled(Str(ERR_LAMBDA_NOT_FOUND))
         ELSE Rejected(Str(ERR_LAMBDA_NOT_FOUND))
    ELSE Fulfilled(data)

\* checkLambda: what the getFunction callback does with (err, data)
checkLambda(err, data, opts) ==
    IF Truthy(err)
    THEN IF Get(err, "code") = Str("ResourceNotFoundException")
         THEN IF WantsCreate(opts)
              THEN Fulfilled(Str(ERR_LAMBDA_NOT_FOUND))
              ELSE Rejected(Str(ERR_LAMBDA_NOT_FOUND))
         ELSE Rejected(Str("Lambda getFunction Error"))
    ELSE Fulfilled(data)

\* a test against the wrong message
IsNotFoundResultWrongMessage(result) == result = Str(ERR_LAMBDA_CONFIG)

\* result === GdwAwsLambda.ERR_LAMBDA_NOT_FOUND
IsNotFoundResult(result) == result = Str(ERR_LAMBDA_NOT_FOUND)

\* readArchive: whether it starts a file read; if not, it rejects at once
ArchiveNamed(cfg) == isNEString(Get(cfg, "archiveName"))

\* the promises deploy pushes: updateConfig() when asked for, and
\* updateFunctionCode()
Batch(cP, kP) == IF cP = NoPromise THEN <<kP>> ELSE <<cP, kP>>

\* a join that settles with the first operation to settle
BatchStepRace(dP, ps, i) ==
    LET all == PromiseRaceStep(dP, ps, i)
    IN  IF dP.st = "pending" /\ all.st = "fulfilled"
        THEN Fulfilled(Str(INFO_DEPLOY_COMPLETE))
        ELSE all

\* Promise.all(promises).then(() => INFO_DEPLOY_COMPLETE), when element i of
\* the batch has just settled
BatchStep(dP, ps, i) ==
    LET all == PromiseAllStep(dP, ps, i)
    IN  IF dP.st = "pending" /\ all.st = "fulfilled"
        THEN Fulfilled(Str(INFO_DEPLOY_COMPLETE))
        ELSE all

\* the record of a callback that has run with (err, data)
Done(op, err, data) == [op |-> op, err |-> err, data |-> data]

\* the first failure among the operations of the batch
NoteFail(p) == IF firstFail = Undef /\ p.st = "rejected" THEN p.v ELSE firstFail

GetFunctionAnswers ==
    {[err |-> AwsError("ResourceNotFoundException"), data |-> Null],
     [err |-> AwsError("ServiceException"), data |-> Null]}
    \cup { [err |-> Null, data |-> r] : r \in GetFunctionResponses }

\* deploy(options): starts the two reads of readConfig
Deploy(opts) ==
    /\ deployP = NoPromise
    /\ options' = opts
    /\ deployP' = Pending
    /\ cfgP' = Pending
    /\ secP' = Pending
    /\ pending' = {"readConfig", "readSecrets"}
    /\ UNCHANGED <<cfgFile, secFile, lambdaCfg, lambdaSecrets, lambda,
                   lambdaGetInfo, configP, codeP, calls, completed, firstFail>>
    /\ UNCHANGED <<envVars, testVars, initVars>>

\* what follows the settling of element i of readConfig's Promise.all: a
\* rejection reaches deploy's promise; once both documents are loaded the
\* client is built and checkLambda issues getFunction
AfterRead(ps, i, cfg, sec, pend) ==
    LET all == PromiseAllStep(IF deployP.st = "pending" THEN Pending ELSE deployP,
                              ps, i)
    IN  IF all.st = "fulfilled"
        THEN /\ lambda' = createLambdaOptions(sec)
             /\ calls' = Append(calls, Call("getFunction", getFunctionParams(cfg)))
             /\ pending' = pend \cup {"getFunction"}
             /\ deployP' = deployP
        ELSE /\ UNCHANGED <<lambda, calls>>
             /\ pending' = pend
             /\ deployP' = IF all.st = "rejected" THEN all ELSE deployP

\* the fs.readFile callback of the read of lambda-config.json
ReadConfigCb ==
    /\ "readConfig" \in pending
    /\ LET p == ConfigThen(readObject(cfgFile, FILE_LAMBDA_CONFIG, FILE_LAMBDA_CONFIG))
           cfg == IF p.st = "fulfilled" THEN p.v ELSE lambdaCfg
       IN  /\ cfgP' = p
           /\ lambdaCfg' = cfg
           /\ AfterRead(<<p, secP>>, 1, cfg, lambdaSecrets, pending \ {"readConfig"})
    /\ UNCHANGED <<cfgFile, secFile, options, lambdaSecrets, lambdaGetInfo, secP,
                   configP, codeP, completed, firstFail>>
    /\ UNCHANGED <<envVars, testVars, initVars>>

\* the fs.readFile callback of the read of lambda-secrets.json
ReadSecretsCb ==
    /\ "readSecrets" \in pending
    /\ LET p == SecretsThen(readObject(secFile, FILE_LAMBDA_SECRETS, FILE_LAMBDA_SECRETS))
           sec == IF p.st = "fulfilled" THEN p.v ELSE lambdaSecrets
       IN  /\ secP' = p
           /\ lambdaSecrets' = sec
           /\ AfterRead(<<cfgP, p>>, 2, lambdaCfg, sec, pending \ {"readSecrets"})
    /\ UNCHANGED <<cfgFile, secFile, options, lambdaCfg, lambdaGetInfo, cfgP,
                   configP, codeP, completed, firstFail>>
    /\ UNCHANGED <<envVars, testVars, initVars>>

\* the getFunction callback and the reaction deploy attaches to checkLambda
GetFunctionCb(answer) ==
    /\ "getFunction" \in pending
    /\ LET r == checkLambda(answer.err, answer.data, options)
           info == IF Truthy(answer.err) THEN lambdaGetInfo ELSE answer.data
           pend == pending \ {"getFunction"}
           upd == WantsUpdateConfig(options)
           code == IF ArchiveNamed(lambdaCfg)
                   THEN Pending
                   ELSE Rejected(Str("Invalid archive name"))
           conf == IF upd THEN Pending ELSE NoPromise
       IN  /\ lambdaGetInfo' = info
           /\ completed' = completed \cup {Done("getFunction", answer.err, answer.data)}
           /\ IF r.st = "rejected"
              THEN /\ deployP' = r
                   /\ pending' = pend
                   /\ UNCHANGED <<configP, codeP, calls, firstFail>>
              ELSE IF IsNotFoundResult(r.v)
              THEN \* createFunction(): readArchive()
                   /\ deployP' = IF ArchiveNamed(lambdaCfg)
                                 THEN deployP
                                 ELSE Rejected(Str("Invalid archive name"))
                   /\ pending' = pend \cup
                          (IF ArchiveNamed(lambdaCfg) THEN {"createArchive"} ELSE {})
                   /\ UNCHANGED <<configP, codeP, calls, firstFail>>
              ELSE IF ~upd /\ ~checkLambdaConfig(info, lambdaCfg, lambdaSecrets)
              THEN /\ deployP' = Rejected(Str(ERR_LAMBDA_CONFIG))
                   /\ pending' = pend
                   /\ UNCHANGED <<configP, codeP, calls, firstFail>>
              ELSE \* updateConfig() when asked for, then updateFunctionCode()
                   /\ configP' = conf
                   /\ codeP' = code
                   /\ calls' = IF upd
                               THEN Append(calls,
                                        Call("updateFunctionConfiguration",
                                             updateConfigParams(lambdaCfg, lambdaSecrets)))
                               ELSE calls
                   /\ pending' = pend
                          \cup (IF upd THEN {"updateConfig"} ELSE {})
                          \cup (IF ArchiveNamed(lambdaCfg) THEN {"codeArchive"} ELSE {})
                   /\ firstFail' = NoteFail(code)
                   /\ deployP' = BatchStep(deployP, Batch(conf, code),
                                           Len(Batch(conf, code)))
    /\ UNCHANGED <<cfgFile, secFile, options, lambdaCfg, lambdaSecrets, lambda,
                   cfgP, secP>>
    /\ UNCHANGED <<envVars, testVars, initVars>>

ArchiveReads == {[err |-> Null, data |-> Buf("zip")],
                 [err |-> AwsError("ENOENT"), data |-> Undef]}

\* the fs.readFile callback of createFunction's readArchive: on success the
\* reaction issues createFunction and returns nothing
CreateArchiveCb(read) ==
    /\ "createArchive" \in pending
    /\ completed' = completed \cup {Done("createArchive", read.err, read.data)}
    /\ IF Truthy(read.err)
       THEN /\ deployP' = Rejected(Fmt("Archive %not found",
                                       Get(lambdaCfg, "archiveName")))
            /\ pending' = pending \ {"createArchive"}
            /\ UNCHANGED calls
       ELSE /\ calls' = Append(calls,
                   Call("createFunction",
                        createFunctionParams(lambdaCfg, lambdaSecrets, read.data)))
            /\ pending' = (pending \ {"createArchive"}) \cup {"createFunction"}
            /\ deployP' = Fulfilled(Undef)
    /\ UNCHANGED <<cfgFile, secFile, options, lambdaCfg, lambdaSecrets, lambda,
                   lambdaGetInfo, cfgP, secP, configP, codeP, firstFail>>
    /\ UNCHANGED <<envVars, testVars, initVars>>

\* the createFunction callback: what it returns goes to the remote client
CreateFunctionCb(err) ==
    /\ "createFunction" \in pending
    /\ pending' = pending \ {"createFunction"}
    /\ completed' = completed \cup {Done("createFunction", err, Undef)}
    /\ UNCHANGED <<cfgFile, secFile, options, lambdaCfg, lambdaSecrets, lambda,
                   lambdaGetInfo, cfgP, secP, deployP, configP, codeP, calls,
                   firstFail>>
    /\ UNCHANGED <<envVars, testVars, initVars>>

\* the updateFunctionConfiguration callback of updateConfig
UpdateConfigCb(err) ==
    /\ "updateConfig" \in pending
    /\ pending' = pending \ {"updateConfig"}
    /\ completed' = completed \cup {Done("updateFunctionConfiguration", err, Undef)}
    /\ LET p == IF Truthy(err)
                THEN Rejected(Str("Error updating function configuration"))
                ELSE Fulfilled(Obj(<<>>))
       IN  /\ configP' = p
           /\ firstFail' = NoteFail(p)
           /\ deployP' = BatchStep(deployP, Batch(p, codeP), 1)
    /\ UNCHANGED <<cfgFile, secFile, options, lambdaCfg, lambdaSecrets, lambda,
                   lambdaGetInfo, cfgP, secP, codeP, calls>>
    /\ UNCHANGED <<envVars, testVars, initVars>>

\* a reaction that does not compare the hashes
CodeDecisionAlwaysUpdate(result, info) ==
    IF Truthy(info) /\ Truthy(Get(info, "Configuration"))
    THEN "update"
    ELSE "invalid"

\* a reaction that gives the real update up once deploy has been rejected
CodeDecisionUnlessRejected(result, info) ==
    IF deployP.st = "rejected" THEN "uptodate"
    ELSE IF Truthy(info) /\ Truthy(Get(info, "Configuration"))
    THEN IF Get(result, "CodeSha256") # Get(Get(info, "Configuration"), "CodeSha256")
         THEN "update"
         ELSE "uptodate"
    ELSE "invalid"

\* the second reaction of updateFunctionCode, given the dry run's result:
\* "update" issues the real call, "uptodate" returns the up-to-date message,
\* "invalid" throws
CodeDecision(result, info) ==
    IF Truthy(info) /\ Truthy(Get(info, "Configuration"))
    THEN IF Get(result, "CodeSha256") # Get(Get(info, "Configuration"), "CodeSha256")
         THEN "update"
         ELSE "uptodate"
    ELSE "invalid"

\* the FunctionConfiguration an updateFunctionCode call answers with
CodeAnswers ==
    {[err |-> AwsError("ServiceException"), data |-> Null]}
    \cup { [err |-> Null, data |-> Obj(<< <<"CodeSha256", Str(h)>> >>)] :
             h \in CodeHashes }

\* the fs.readFile callback of updateFunctionCode's readArchive: on success
\* the first reaction issues the dry run
CodeArchiveCb(read) ==
    /\ "codeArchive" \in pending
    /\ completed' = completed \cup {Done("codeArchive", read.err, read.data)}
    /\ IF Truthy(read.err)
       THEN LET p == Rejected(Fmt("Archive %not found",
                                  Get(lambdaCfg, "archiveName")))
            IN  /\ codeP' = p
                /\ firstFail' = NoteFail(p)
                /\ deployP' = BatchStep(deployP, Batch(configP, p),
                                        Len(Batch(configP, p)))
                /\ pending' = pending \ {"codeArchive"}
                /\ UNCHANGED calls
       ELSE /\ calls' = Append(calls,
                   Call("updateFunctionCode",
                        updateCodeParams(lambdaCfg, read.data, TRUE)))
            /\ pending' = (pending \ {"codeArchive"}) \cup {"dryRun"}
            /\ UNCHANGED <<codeP, firstFail, deployP>>
    /\ UNCHANGED <<cfgFile, secFile, options, lambdaCfg, lambdaSecrets, lambda,
                   lambdaGetInfo, cfgP, secP, configP>>
    /\ UNCHANGED <<envVars, testVars, initVars>>

\* the callback of the dry-run updateFunctionCode and the second reaction
DryRunCb(answer) ==
    /\ "dryRun" \in pending
    /\ completed' = completed \cup {Done("dryRun", answer.err, answer.data)}
    /\ LET d == IF Truthy(answer.err) THEN "failed"
                ELSE CodeDecision(answer.data, lambdaGetInfo)
           p == CASE d = "failed" -> Rejected(answer.err)
                  [] d = "update" -> Pending
                  [] d = "uptodate" -> Fulfilled(Str(INFO_FUNCTION_CODE_UO_TO_DATE))
                  [] OTHER -> Rejected(Str("Invalid Lambda function information"))
       IN  /\ codeP' = p
           /\ firstFail' = NoteFail(p)
           /\ deployP' = BatchStep(deployP, Batch(configP, p), Len(Batch(configP, p)))
           /\ calls' = IF d = "update"
                       THEN Append(calls,
                                Call("updateFunctionCode",
                                     updateCodeParams(lambdaCfg, answer.data, FALSE)))
                       ELSE calls
           /\ pending' = (pending \ {"dryRun"})
                  \cup (IF d = "update" THEN {"realUpdate"} ELSE {})
    /\ UNCHANGED <<cfgFile, secFile, options, lambdaCfg, lambdaSecrets, lambda,
                   lambdaGetInfo, cfgP, secP, configP>>
    /\ UNCHANGED <<envVars, testVars, initVars>>

\* the callback of the real updateFunctionCode
RealUpdateCb(answer) ==
    /\ "realUpdate" \in pending
    /\ completed' = completed \cup {Done("realUpdate", answer.err, answer.data)}
    /\ pending' = pending \ {"realUpdate"}
    /\ LET p == IF Truthy(answer.err)
                THEN Rejected(answer.err)
                ELSE Fulfilled(answer.data)
       IN  /\ codeP' = p
           /\ firstFail' = NoteFail(p)
           /\ deployP' = BatchStep(deployP, Batch(configP, p), Len(Batch(configP, p)))
    /\ UNCHANGED <<cfgFile, secFile, options, lambdaCfg, lambdaSecrets, lambda,
                   lambdaGetInfo, cfgP, secP, configP, calls>>
    /\ UNCHANGED <<envVars, testVars, initVars>>

RemoteErrors == {Null, AwsError("ServiceException")}

Init ==
    /\ cfgFile \in ConfigFiles
    /\ secFile \in SecretsFiles
    /\ testsFile = Missing
    /\ DeployIdle
    /\ EnvIdle
    /\ TestIdle
    /\ InitIdle

Next ==
    \/ \E opts \in DeployOptions : Deploy(opts)
    \/ ReadConfigCb
    \/ ReadSecretsCb
    \/ \E answer \in GetFunctionAnswers : GetFunctionCb(answer)
    \/ \E read \in ArchiveReads : CreateArchiveCb(read)
    \/ \E err \in RemoteErrors : CreateFunctionCb(err)
    \/ \E err \in RemoteErrors : UpdateConfigCb(err)
    \/ \E read \in ArchiveReads : CodeArchiveCb(read)
    \/ \E answer \in CodeAnswers : DryRunCb(answer)
    \/ \E answer \in CodeAnswers : RealUpdateCb(answer)

Spec == Init /\ [][Next]_vars

(***************************************************************************)
(* test                                                                    *)
(***************************************************************************)
\* the most test cases of a tests document, and the most events of all its
\* test cases together
MaxTests == 2

MaxEvents == 3

\* the characters of the Handler strings of the documents below
CharsOf(s) ==
    CASE s = "index.handler" ->
            <<"i", "n", "d", "e", "x", ".", "h", "a", "n", "d", "l", "e", "r">>
      [] s = "indexonlyexport" ->
            <<"i", "n", "d", "e", "x", "o", "n", "l", "y", "e", "x", "p", "o",
              "r", "t">>
      [] s = "a.b.c" -> <<"a", ".", "b", ".", "c">>
      [] s = "index.x" -> <<"i", "n", "d", "e", "x", ".", "x">>
      [] s = "lib.handler" ->
            <<"l", "i", "b", ".", "h", "a", "n", "d", "l", "e", "r">>
      [] s = "index." -> <<"i", "n", "d", "e", "x", ".">>
      [] s = "" -> <<>>

RECURSIVE SplitFrom(_, _, _, _)
\* the tokens of chars from position i on, cur being the token under way
SplitFrom(chars, sep, i, cur) ==
    IF i > Len(chars) THEN <<cur>>
    ELSE IF chars[i] = sep
         THEN <<cur>> \o SplitFrom(chars, sep, i + 1, "")
         ELSE SplitFrom(chars, sep, i + 1, cur \o chars[i])

RECURSIVE RestFrom(_, _)
\* the characters of chars from position i on, as one string
RestFrom(chars, i) ==
    IF i > Len(chars) THEN "" ELSE chars[i] \o RestFrom(chars, i + 1)

\* a split that cuts at the first separator only
splitAtFirst(s, sep) ==
    LET chars == CharsOf(s)
        cuts == { i \in 1..Len(chars) : chars[i] = sep }
    IN  IF cuts = {} THEN <<s>>
        ELSE LET c == CHOOSE i \in cuts : \A j \in cuts : i <= j
             IN  <<SplitFrom(SubSeq(chars, 1, c - 1), sep, 1, "")[1],
                   RestFrom(chars, c + 1)>>

\* String.prototype.split
split(s, sep) == SplitFrom(CharsOf(s), sep, 1, "")

\* the modules of the working directory that require can load
ModuleFound(filePath) == filePath \in {"index.js", "a.js"}

\* the names a loaded module exports a function under
ModuleExports(filePath) ==
    IF filePath = "index.js" THEN {"handler"}
    ELSE IF filePath = "a.js" THEN {"b", "b.c"}
    ELSE {}

\* runTests up to its loop: what it throws, if anything, and the paths it
\* has passed to require by then (the working directory's prefix left out)
runTests(cfg) ==
    LET splits == split(Get(cfg, "Handler").s, ".")
    IN  IF Len(splits) # 2
        THEN [thrown |-> Str("Invalid handler"), loads |-> <<>>]
        ELSE LET filePath == splits[1] \o ".js"
             IN  IF ~ModuleFound(filePath)
                 THEN [thrown |-> Fmt("Cannot find module %", filePath),
                       loads |-> <<filePath>>]
                 ELSE IF splits[2] \notin ModuleExports(filePath)
                 THEN [thrown |-> Str("invalid handler object"),
                       loads |-> <<filePath>>]
                 ELSE [thrown |-> Undef, loads |-> <<filePath>>]

\* the events of a test case
EventsOf(test) == Get(test, "events").a

RECURSIVE EventInvocations(_, _, _)
\* executeContextTest: the invocations of test case i from its event j on
EventInvocations(test, i, j) ==
    IF j > Len(EventsOf(test)) THEN <<>>
    ELSE <<[test |-> i, event |-> j, context |-> Get(test, "context"),
            arg |-> EventsOf(test)[j]]>>
         \o EventInvocations(test, i, j + 1)

\* a loop that runs the first test case only
TestInvocationsFirstCaseOnly(tests, i) ==
    IF i > Len(tests.a) \/ i > 1 THEN <<>>
    ELSE EventInvocations(tests.a[i], i, 1)

RECURSIVE TestInvocations(_, _)
\* the loop of runTests: the invocations of the test cases from case i on
TestInvocations(tests, i) ==
    IF i > Len(tests.a) THEN <<>>
    ELSE EventInvocations(tests.a[i], i, 1) \o TestInvocations(tests, i + 1)

\* isLambdaTests
isLambdaTests(obj) ==
    obj.t = "arr" /\ \A i \in 1..Len(obj.a) : isLambdaTest(obj.a[i])

\* the reaction test attaches to the read of the tests document
TestsThen(r) ==
    IF r.st # "fulfilled" THEN r
    ELSE IF isLambdaTests(r.v) THEN Fulfilled(r.v)
    ELSE Rejected(Str("Invalid Lambda tests"))

\* what fs.readFile finds under a name
Disk(name) ==
    IF name = FILE_LAMBDA_CONFIG THEN cfgFile
    ELSE IF name = FILE_LAMBDA_SECRETS THEN secFile
    ELSE IF name = FILE_LAMBDA_TESTS THEN testsFile
    ELSE Missing

\* the file test reads its test cases from
TestFile ==
    IF Truthy(testFileName) /\ isNEString(testFileName)
    THEN testFileName.s
    ELSE FILE_LAMBDA_TESTS

\* Promise.all(ps) at its creation, no element being rejected
PromiseAllStart(ps) ==
    IF \A j \in 1..Len(ps) : ps[j].st = "fulfilled"
    THEN Fulfilled(Arr([j \in 1..Len(ps) |-> ps[j].v]))
    ELSE Pending

\* the position in invoked of the invocation of event j of test case i
InvocationOf(inv, i, j) ==
    CHOOSE k \in 1..Len(inv) : inv[k].test = i /\ inv[k].event = j

\* the promises executeContextTest joins for test case i
EventPromises(inv, ps, tests, i) ==
    [j \in 1..Len(EventsOf(tests.a[i])) |-> ps[InvocationOf(inv, i, j)]]

TestFileNames == {Undef, Str(""), Str("my-tests.json")}

\* test(testFileName): starts the two reads
Test(name) ==
    /\ testP = NoPromise
    /\ testFileName' = name
    /\ testP' = Pending
    /\ testCfgP' = Pending
    /\ testTestsP' = Pending
    /\ testReads' = {"readConfig", "readTests"}
    /\ UNCHANGED <<testsFile, lambdaTests, loads, invoked, eventP, contextP,
                   firstErr>>
    /\ UNCHANGED <<envVars, deployVars, initVars>>

\* what follows the settling of element i of test's Promise.all: a rejection
\* reaches test's promise; once both documents are loaded runTests runs, and
\* unless it throws it makes every invocation before it returns
AfterTestRead(ps, i, cfg, tests) ==
    LET all == PromiseAllStep(IF testP.st = "pending" THEN Pending ELSE testP,
                              ps, i)
    IN  IF all.st = "fulfilled"
        THEN LET run == runTests(cfg)
                 inv == TestInvocations(tests, 1)
                 cps == [c \in 1..Len(tests.a) |->
                            PromiseAllStart([j \in 1..Len(EventsOf(tests.a[c]))
                                                |-> Pending])]
             IN  /\ loads' = loads \o run.loads
                 /\ IF run.thrown # Undef
                    THEN /\ testP' = Rejected(run.thrown)
                         /\ UNCHANGED <<invoked, eventP, contextP>>
                    ELSE /\ invoked' = inv
                         /\ eventP' = [k \in 1..Len(inv) |-> Pending]
                         /\ contextP' = cps
                         /\ testP' = PromiseAllStart(cps)
        ELSE /\ testP' = IF all.st = "rejected" THEN all ELSE testP
             /\ UNCHANGED <<loads, invoked, eventP, contextP>>

\* the fs.readFile callback of test's read of lambda-config.json
TestReadConfigCb ==
    /\ "readConfig" \in testReads
    /\ testReads' = testReads \ {"readConfig"}
    /\ LET p == ConfigThen(readObject(cfgFile, FILE_LAMBDA_CONFIG,
                                      FILE_LAMBDA_CONFIG))
           cfg == IF p.st = "fulfilled" THEN p.v ELSE lambdaCfg
       IN  /\ testCfgP' = p
           /\ lambdaCfg' = cfg
           /\ AfterTestRead(<<p, testTestsP>>, 1, cfg, lambdaTests)
    /\ UNCHANGED <<testsFile, testFileName, testTestsP, lambdaTests, firstErr>>
    /\ UNCHANGED <<cfgFile, secFile, options, pending, lambdaSecrets, lambda,
                   lambdaGetInfo, cfgP, secP, deployP, configP, codeP, calls,
                   completed, firstFail>>
    /\ UNCHANGED <<envVars, initVars>>

\* the fs.readFile callback of test's read of the tests document
TestReadTestsCb ==
    /\ "readTests" \in testReads
    /\ testReads' = testReads \ {"readTests"}
    /\ LET p == TestsThen(readObject(Disk(TestFile), TestFile, FILE_LAMBDA_TESTS))
           tests == IF p.st = "fulfilled" THEN p.v ELSE lambdaTests
       IN  /\ testTestsP' = p
           /\ lambdaTests' = tests
           /\ AfterTestRead(<<testCfgP, p>>, 2, lambdaCfg, tests)
    /\ UNCHANGED <<testsFile, testFileName, testCfgP, firstErr>>
    /\ UNCHANGED <<envVars, deployVars, initVars>>

\* what a handler passes to its callback as err: nothing, a falsy value, or
\* an error of its own
HandlerErrors(k) ==
    {Null, Str(""),
     Obj(<< <<"test", Num(invoked[k].test)>>,
            <<"event", Num(invoked[k].event)>> >>)}

\* the callback executeEventTest hands to the handler, called by invocation k
\* with (err, data); the promise is settled by the first call only
HandlerCb(k, err, data) ==
    /\ k \in 1..Len(invoked)
    /\ eventP[k].st = "pending"
    /\ LET i == invoked[k].test
           eps == [eventP EXCEPT
                     ![k] = IF Truthy(err) THEN Rejected(err) ELSE Fulfilled(data)]
           cps == [contextP EXCEPT
                     ![i] = PromiseAllStep(contextP[i],
                                EventPromises(invoked, eps, lambdaTests, i),
                                invoked[k].event)]
       IN  /\ eventP' = eps
           /\ contextP' = cps
           /\ testP' = IF cps[i].st # "pending" /\ contextP[i].st = "pending"
                       THEN PromiseAllStep(testP, cps, i)
                       ELSE testP
           /\ firstErr' = IF firstErr = Undef /\ Truthy(err) THEN err
                          ELSE firstErr
    /\ UNCHANGED <<testsFile, testFileName, testReads, testCfgP, testTestsP,
                   lambdaTests, loads, invoked>>
    /\ UNCHANGED <<envVars, deployVars, initVars>>

\* a test case with n events
TestCase(i, n) ==
    Obj(<< <<"context", Obj(<< <<"case", Num(i)>> >>)>>,
           <<"events", Arr([j \in 1..n |-> Obj(<< <<"n", Num(j)>> >>)])>> >>)

RECURSIVE Sum(_, _)
\* c[1] + ... + c[n]
Sum(c, n) == IF n = 0 THEN 0 ELSE c[n] + Sum(c, n - 1)

\* the tests documents of up to MaxTests test cases and MaxEvents events
TestsDocs ==
    UNION { { Arr([i \in 1..n |-> TestCase(i, c[i])]) :
                c \in { d \in [1..n -> 0..MaxEvents] : Sum(d, n) <= MaxEvents } } :
            n \in 0..MaxTests }

TestsFiles ==
    {Missing, Json(Null), Json(Obj(<<>>)),
     Json(Arr(<<Obj(<< <<"context", Obj(<<>>)>> >>)>>))}
    \cup { Json(d) : d \in TestsDocs }

Handlers ==
    {"index.handler", "indexonlyexport", "a.b.c", "index.x", "lib.handler",
     "index.", ""}

TestConfigFiles ==
    {Missing} \cup { Json(ConfigDoc("fn.zip", "fn", h)) : h \in Handlers }

TestInit ==
    /\ cfgFile \in TestConfigFiles
    /\ secFile = Missing
    /\ testsFile \in TestsFiles
    /\ DeployIdle
    /\ EnvIdle
    /\ TestIdle
    /\ InitIdle

TestNext ==
    \/ \E name \in TestFileNames : Test(name)
    \/ TestReadConfigCb
    \/ TestReadTestsCb
    \/ \E k \in 1..Len(invoked) :
           \E err \in HandlerErrors(k) : HandlerCb(k, err, Str("done"))

SpecTest == TestInit /\ [][TestNext]_vars

(***************************************************************************)
(* init                                                                    *)
(***************************************************************************)
\* how many times init is called
MaxInits == 2

\* the three files of init, in the order of its Promise.all
InitFiles == <<FILE_LAMBDA_CONFIG, FILE_LAMBDA_SECRETS, FILE_LAMBDA_TESTS>>

\* a default config document without its Timeout member
createObjectNoTimeout(type) ==
    IF type = FILE_LAMBDA_CONFIG THEN ConfigDocNoTimeout ELSE Null

\* createObject: the default document of a file
createObject(type) ==
    CASE type = FILE_LAMBDA_CONFIG ->
            Obj(<< <<"archiveName", Str("")>>,
                   <<"FunctionName", Str("")>>,
                   <<"Description", Str("")>>,
                   <<"Handler", Str("")>>,
                   <<"Publish", Bool(FALSE)>>,
                   <<"Runtime", Str("nodejs6.10")>>,
                   <<"MemorySize", Num(128)>>,
                   <<"Timeout", Num(3)>> >>)
      [] type = FILE_LAMBDA_SECRETS ->
            Obj(<< <<"region", Str("")>>,
                   <<"profile", Str("")>>,
                   <<"accessKeyId", Str("")>>,
                   <<"secretAccessKey", Str("")>>,
                   <<"Role", Str("")>>,
                   <<"Environment", Obj(<< <<"Variables", Obj(<<>>)>> >>)>> >>)
      [] type = FILE_LAMBDA_TESTS ->
            Arr(<<Obj(<< <<"context", Obj(<<>>)>>,
                         <<"events", Arr(<<>>)>> >>)>>)
      [] OTHER -> Null

RECURSIVE JsonMembers(_, _)
RECURSIVE JsonValue(_)
\* the members of an object from member i on as JSON.stringify writes them:
\* a member whose value is undefined is left out
JsonMembers(kv, i) ==
    IF i > Len(kv) THEN <<>>
    ELSE IF kv[i][2] = Undef THEN JsonMembers(kv, i + 1)
    ELSE << <<kv[i][1], JsonValue(kv[i][2])>> >> \o JsonMembers(kv, i + 1)

\* the value JSON.parse reads back from the text JSON.stringify writes for v:
\* an undefined element of an array is written as null
JsonValue(v) ==
    IF v.t = "obj" THEN Obj(JsonMembers(v.kv, 1))
    ELSE IF v.t = "arr"
         THEN Arr([i \in 1..Len(v.a) |->
                      IF v.a[i] = Undef THEN Null ELSE JsonValue(v.a[i])])
    ELSE v

\* the data writeObject passes to fs.writeFile
WriteData(object) == Json(JsonValue(object))

\* a catch that runs whatever the read came to
CaughtAlways(r) == TRUE

\* whether the catch of checkAndInit runs
Caught(r) == r.st = "rejected"

\* the three files on disk, in the order of InitFiles
Files == <<cfgFile, secFile, testsFile>>

\* init(): starts the three reads of checkAndInit
InitCall ==
    /\ initRuns < MaxInits
    /\ initPending = {}
    /\ initRuns' = initRuns + 1
    /\ initP' = Pending
    /\ checkP' = <<Pending, Pending, Pending>>
    /\ initPending' = { <<"read", i>> : i \in 1..3 }
    /\ startFiles' = Append(startFiles, Files)
    /\ UNCHANGED writes
    /\ UNCHANGED <<envVars, deployVars, testVars>>

\* the fs.readFile callback of checkAndInit for file i: a read that fails is
\* caught by initFile, which has the default document written
InitReadCb(i) ==
    /\ <<"read", i>> \in initPending
    /\ LET r == readObject(Files[i], InitFiles[i], InitFiles[i])
           obj == createObject(InitFiles[i])
       IN  IF Caught(r)
           THEN IF Truthy(obj)
                THEN /\ writes' = Append(writes, [run |-> initRuns,
                                                  file |-> InitFiles[i],
                                                  data |-> WriteData(obj)])
                     /\ initPending' = (initPending \ {<<"read", i>>})
                                           \cup {<<"write", i>>}
                     /\ UNCHANGED <<checkP, initP>>
                ELSE /\ checkP' = [checkP EXCEPT ![i] =
                            Rejected(Fmt("Unable to create object for %",
                                         InitFiles[i]))]
                     /\ initP' = PromiseAllStep(initP, checkP', i)
                     /\ initPending' = initPending \ {<<"read", i>>}
                     /\ UNCHANGED writes
           ELSE /\ checkP' = [checkP EXCEPT ![i] = r]
                /\ initP' = IF r.st = "pending" THEN initP
                            ELSE PromiseAllStep(initP, checkP', i)
                /\ initPending' = initPending \ {<<"read", i>>}
                /\ UNCHANGED writes
    /\ UNCHANGED <<initRuns, startFiles>>
    /\ UNCHANGED <<envVars, deployVars, testVars>>

\* the data of the write of file i that is under way
WriteUnderWay(i) ==
    LET ks == { k \in 1..Len(writes) : writes[k].file = InitFiles[i] }
    IN  writes[CHOOSE k \in ks : \A l \in ks : l <= k].data

\* what fs.writeFile passes to its callback: nothing, or an error, in which
\* case the file is taken to be as it was
WriteErrors == {Null, AwsError("EACCES")}

\* the fs.writeFile callback of writeObject for file i
InitWriteCb(i, err) ==
    /\ <<"write", i>> \in initPending
    /\ initPending' = initPending \ {<<"write", i>>}
    /\ checkP' = [checkP EXCEPT ![i] =
                     IF Truthy(err)
                     THEN Rejected(Fmt("Failed to write file %", InitFiles[i]))
                     ELSE Fulfilled(Fmt("File % has been written", InitFiles[i]))]
    /\ initP' = PromiseAllStep(initP, checkP', i)
    /\ LET after == IF Truthy(err) THEN Files
                    ELSE [Files EXCEPT ![i] = WriteUnderWay(i)]
       IN  /\ cfgFile' = after[1]
           /\ secFile' = after[2]
           /\ testsFile' = after[3]
    /\ UNCHANGED <<initRuns, writes, startFiles>>
    /\ UNCHANGED <<options, pending, lambdaCfg, lambdaSecrets, lambda,
                   lambdaGetInfo, cfgP, secP, deployP, configP, codeP, calls,
                   completed, firstFail>>
    /\ UNCHANGED <<testFileName, testReads, testCfgP, testTestsP, testP,
                   lambdaTests, loads, invoked, eventP, contextP, firstErr>>
    /\ UNCHANGED envVars

\* the default documents, as init writes them
DefaultFiles == [i \in 1..3 |-> WriteData(createObject(InitFiles[i]))]

(***************************************************************************)
(* The three operations on a working directory.  A run of the program      *)
(* performs one of them on a new object: deploy, test, or init (called     *)
(* again once its callbacks have run).  What an earlier run leaves to a    *)
(* later one is the files, which the initial states range over.            *)
(***************************************************************************)
\* neither deploy nor test has been called on the object
NoRun == deployP = NoPromise /\ testP = NoPromise

AllConfigFiles ==
    {Missing, BadJson, Json(Null), Json(ConfigDocNoTimeout),
     Json(ConfigDoc("fn.zip", "fn", "index.handler"))}

AllSecretsFiles ==
    {Missing, Json(Str("secret")),
     Json(SecretsDoc("eu-west-1", "dev", "", "", "role", X1))}

AllTestsFiles == {Missing, Json(Obj(<<>>)), Json(Arr(<<TestCase(1, 1)>>))}

AllInit ==
    /\ cfgFile \in AllConfigFiles
    /\ secFile \in AllSecretsFiles
    /\ testsFile \in AllTestsFiles
    /\ DeployIdle
    /\ EnvIdle
    /\ TestIdle
    /\ InitIdle

AllNext ==
    \/ NoRun /\ InitCall
    \/ NoRun /\ initRuns = 0 /\ \E opts \in DeployOptions : Deploy(opts)
    \/ NoRun /\ initRuns = 0 /\ \E name \in TestFileNames : Test(name)
    \/ \E i \in 1..3 : InitReadCb(i)
    \/ \E i \in 1..3 : \E err \in WriteErrors : InitWriteCb(i, err)
    \/ ReadConfigCb
    \/ ReadSecretsCb
    \/ \E answer \in GetFunctionAnswers : GetFunctionCb(answer)
    \/ \E read \in ArchiveReads : CreateArchiveCb(read)
    \/ \E err \in RemoteErrors : CreateFunctionCb(err)
    \/ \E err \in RemoteErrors : UpdateConfigCb(err)
    \/ \E read \in ArchiveReads : CodeArchiveCb(read)
    \/ \E answer \in CodeAnswers : DryRunCb(answer)
    \/ \E answer \in CodeAnswers : RealUpdateCb(answer)
    \/ TestReadConfigCb
    \/ TestReadTestsCb
    \/ \E k \in 1..Len(invoked) :
           \E err \in HandlerErrors(k) : HandlerCb(k, err, Str("done"))

SpecAll == AllInit /\ [][AllNext]_vars

(***************************************************************************)
(* The environment equality rule, stated on what an environment means:     *)
(* the set of its <<name, value>> variables (none when the environment or  *)
(* its Variables are absent).                                              *)
(***************************************************************************)
VarsOf(env) ==
    IF isObject(env) /\ HasOwn(env, "Variables") /\ Get(env, "Variables").t = "obj"
    THEN { Get(env, "Variables").kv[i] : i \in 1..Len(Get(env, "Variables").kv) }
    ELSE {}

NamesOf(env) == { p[1] : p \in VarsOf(env) }

ValueOf(env, k) == (CHOOSE p \in VarsOf(env) : p[1] = k)[2]

EnvRule(a, b) ==
    IF VarsOf(a) = {} /\ VarsOf(b) = {} THEN TRUE
    ELSE IF VarsOf(a) = {} \/ VarsOf(b) = {} THEN FALSE
    ELSE /\ NamesOf(a) = NamesOf(b)
         /\ \A k \in NamesOf(a) : ValueOf(a, k) = ValueOf(b, k)

\* C10: compareEnvironment returns what the environment equality rule says:
\* true when both sides have no variables, false when exactly one has, and
\* otherwise true iff both have the same names with the same values, in any
\* order; with the five examples of the rule.
C10_CompareFollowsRule ==
    /\ envDone => (envResult = EnvRule(env1, env2))
    /\ (envDone /\ env1 = XY12 /\ env2 = Y2) => ~envResult
    /\ (envDone /\ env1 = X1 /\ env2 = X2) => ~envResult
    /\ (envDone /\ env1 = Obj(<<>>) /\ env2 = NoVars) => envResult
    /\ (envDone /\ env1 = X1 /\ env2 = NoVars) => ~envResult
    /\ (envDone /\ env1 = X1 /\ env2 = X1) => envResult

\* two environments with the same variables listed in different orders have
\* been compared and found equal
C10_Witness ==
    /\ envDone
    /\ env1 = XY12
    /\ env2 = YX21
    /\ envResult

\* C11: environment equality is symmetric and reflexive: comparing two
\* environments gives the same answer in both orders, and comparing an
\* environment with itself gives true.
C11_SymmetricReflexive ==
    envDone => /\ envResult = envSwapped
               /\ env1 = env2 => envResult

\* an environment has been compared, in both orders, with one that holds its
\* variable and one more
C11_Witness ==
    /\ envDone
    /\ env1 = X1
    /\ env2 = XY12
    /\ ~envResult
    /\ ~envSwapped

(***************************************************************************)
(* What the claims about deploy speak of.                                  *)
(***************************************************************************)
\* the calls of an operation issued so far
CallsOf(op) == { i \in 1..Len(calls) : calls[i].op = op }

\* the updateFunctionCode calls issued with the given DryRun
CodeCalls(dryRun) ==
    { i \in CallsOf("updateFunctionCode") :
        Get(calls[i].params, "DryRun") = Bool(dryRun) }

\* an option of deploy is set
OptionSet(k) == options.t = "obj" /\ HasOwn(options, k) /\ Get(options, k) = Bool(TRUE)

\* getFunction has answered with the function
Found == \E c \in completed : c.op = "getFunction" /\ c.err = Null

\* getFunction has answered that the function does not exist
NotFound ==
    \E c \in completed :
        /\ c.op = "getFunction"
        /\ c.err = AwsError("ResourceNotFoundException")

\* the remote snapshot: the Configuration the function was found with
Snapshot == Get(lambdaGetInfo, "Configuration")

\* the snapshot equals the local documents on every compared field
SnapshotMatches ==
    /\ Snapshot # Undef
    /\ \A k \in {"FunctionName", "Description", "Handler", "Runtime",
                 "MemorySize", "Timeout"} :
           Get(Snapshot, k) = Get(lambdaCfg, k)
    /\ Get(Snapshot, "Role") = Get(lambdaSecrets, "Role")
    /\ EnvRule(Get(Snapshot, "Environment"), Get(lambdaSecrets, "Environment"))

\* C1: with updateConfig unset and the function found, a snapshot that
\* differs from the local documents in a compared field makes deploy reject
\* with 'Lambda config different', and neither updateFunctionCode (dry run
\* or real) nor updateFunctionConfiguration is ever called.
C1_MismatchRejectsWithoutUpdate ==
    (Found /\ ~OptionSet("updateConfig") /\ ~SnapshotMatches)
        => /\ deployP = Rejected(Str(ERR_LAMBDA_CONFIG))
           /\ CallsOf("updateFunctionCode") = {}
           /\ CallsOf("updateFunctionConfiguration") = {}

\* the function was found with a Timeout other than the local one, no
\* updateConfig, and deploy has rejected with the mismatch
C1_Witness ==
    /\ Found
    /\ ~OptionSet("updateConfig")
    /\ Snapshot # Undef
    /\ Get(Snapshot, "Timeout") = Num(10)
    /\ Get(lambdaCfg, "Timeout") = Num(3)
    /\ Get(Snapshot, "Environment") = Get(lambdaSecrets, "Environment")
    /\ deployP = Rejected(Str(ERR_LAMBDA_CONFIG))

\* C2: with updateConfig unset and the function found, a snapshot that
\* matches the local documents on every compared field is accepted: deploy is
\* not rejected with 'Lambda config different' and the code update is started.
C2_MatchingSnapshotAccepted ==
    (Found /\ ~OptionSet("updateConfig") /\ SnapshotMatches)
        => /\ deployP # Rejected(Str(ERR_LAMBDA_CONFIG))
           /\ codeP # NoPromise

\* C3, as claimed: with create set and the function not found, once deploy
\* has settled a createFunction call has been issued and no update call has.
C3_CreateAlwaysIssued ==
    (NotFound /\ OptionSet("create") /\ deployP.st \in {"fulfilled", "rejected"})
        => /\ Cardinality(CallsOf("createFunction")) = 1
           /\ CallsOf("updateFunctionCode") = {}
           /\ CallsOf("updateFunctionConfiguration") = {}

\* the archive of the create path has been read
CreateArchiveRead == \E c \in completed : c.op = "createArchive" /\ c.err = Null

\* C3, amended: with create set and the function not found, no update call
\* is ever issued; exactly one createFunction call is issued once the archive
\* has been read, and none when archiveName is empty or the read fails, in
\* which case deploy rejects.
C3_CreateIssuedOnceArchiveRead ==
    (NotFound /\ OptionSet("create"))
        => /\ CallsOf("updateFunctionCode") = {}
           /\ CallsOf("updateFunctionConfiguration") = {}
           /\ Cardinality(CallsOf("createFunction")) =
                  (IF CreateArchiveRead THEN 1 ELSE 0)
           /\ (~CreateArchiveRead /\ "createArchive" \notin pending)
                  => deployP.st = "rejected"

\* the function was not found, create was set, and createFunction was called
C3_Witness ==
    /\ NotFound
    /\ OptionSet("create")
    /\ Cardinality(CallsOf("createFunction")) = 1
    /\ Len(calls) = 2

\* C4: with create unset and the function not found, deploy rejects with
\* 'Lambda not found' and getFunction stays the only remote call.
C4_NotFoundRejects ==
    (NotFound /\ ~OptionSet("create"))
        => /\ deployP = Rejected(Str(ERR_LAMBDA_NOT_FOUND))
           /\ CallsOf("createFunction") = {}
           /\ CallsOf("updateFunctionConfiguration") = {}
           /\ CallsOf("updateFunctionCode") = {}

\* deploy without options has rejected on a function that does not exist
C4_Witness ==
    /\ NotFound
    /\ options = Undef
    /\ deployP = Rejected(Str(ERR_LAMBDA_NOT_FOUND))

\* the answers of the dry run so far
DryRunAnswers == { c \in completed : c.op = "dryRun" /\ c.err = Null }

\* C5: no real updateFunctionCode call precedes the dry run's answer; once
\* the dry run has answered with a hash, a hash equal to the snapshot's
\* CodeSha256 leaves no real call and the up-to-date message as the step's
\* result, and a different hash leaves exactly one real call.
C5_RealUpdateIffHashDiffers ==
    /\ DryRunAnswers = {} => CodeCalls(FALSE) = {}
    /\ \A c \in DryRunAnswers :
           Snapshot # Undef =>
               IF Get(c.data, "CodeSha256") = Get(Snapshot, "CodeSha256")
               THEN /\ CodeCalls(FALSE) = {}
                    /\ codeP = Fulfilled(Str(INFO_FUNCTION_CODE_UO_TO_DATE))
               ELSE Cardinality(CodeCalls(FALSE)) = 1

\* the dry run answered with the snapshot's hash: no real call, up to date
C5_Witness ==
    /\ Snapshot # Undef
    /\ \E c \in DryRunAnswers :
           Get(c.data, "CodeSha256") = Get(Snapshot, "CodeSha256")
    /\ CodeCalls(FALSE) = {}
    /\ Cardinality(CodeCalls(TRUE)) = 1
    /\ codeP = Fulfilled(Str(INFO_FUNCTION_CODE_UO_TO_DATE))

\* C6: with updateConfig set and the function found, one
\* updateFunctionConfiguration call is issued whether or not the snapshot
\* matches, deploy is never rejected with 'Lambda config different', and the
\* code update is started.
C6_UpdateConfigUnconditional ==
    (Found /\ OptionSet("updateConfig"))
        => /\ Cardinality(CallsOf("updateFunctionConfiguration")) = 1
           /\ deployP # Rejected(Str(ERR_LAMBDA_CONFIG))
           /\ codeP # NoPromise

\* updateConfig was set, the snapshot differs, and the update was issued
C6_Witness ==
    /\ Found
    /\ OptionSet("updateConfig")
    /\ ~SnapshotMatches
    /\ Cardinality(CallsOf("updateFunctionConfiguration")) = 1
    /\ codeP # NoPromise

\* the final batch has been launched
BatchStarted == Found /\ codeP # NoPromise

\* every operation of the batch has succeeded
BatchSucceeded ==
    /\ BatchStarted
    /\ codeP.st = "fulfilled"
    /\ configP.st \in {"none", "fulfilled"}

\* C7: on the found-function path the batch holds the configuration update
\* exactly when updateConfig is set; deploy is fulfilled, with 'Lambda
\* function deploy finished', iff every operation of the batch has succeeded;
\* and once one has failed deploy is rejected with the first failure.
C7_DeployJoinsBatch ==
    /\ BatchStarted => (configP # NoPromise <=> OptionSet("updateConfig"))
    /\ (Found /\ deployP.st = "fulfilled")
           => (BatchSucceeded /\ deployP.v = Str(INFO_DEPLOY_COMPLETE))
    /\ BatchSucceeded => deployP = Fulfilled(Str(INFO_DEPLOY_COMPLETE))
    /\ (BatchStarted /\ "rejected" \in {codeP.st, configP.st})
           => (firstFail # Undef /\ deployP = Rejected(firstFail))

\* both operations of the batch have failed, for different reasons, and
\* deploy carries the reason of the first
C7_Witness ==
    /\ BatchStarted
    /\ codeP.st = "rejected"
    /\ configP.st = "rejected"
    /\ codeP.v # configP.v
    /\ firstFail = codeP.v
    /\ deployP = Rejected(firstFail)
    /\ pending = {}

\* C8: a createFunction call that completes with an error leaves deploy
\* rejected.
C8_CreateFailureRejects ==
    (\E c \in completed : c.op = "createFunction" /\ Truthy(c.err))
        => deployP.st = "rejected"

\* a document that can be loaded: JSON of the required shape with its
\* required fields non-empty
ConfigFileValid ==
    /\ cfgFile.t = "json"
    /\ isLambdaConfig(cfgFile.v)
    /\ isNEString(Get(cfgFile.v, "FunctionName"))
    /\ isNEString(Get(cfgFile.v, "Handler"))

SecretsFileValid ==
    /\ secFile.t = "json"
    /\ isLambdaSecrets(secFile.v)
    /\ isNEString(Get(secFile.v, "region"))
    /\ isNEString(Get(secFile.v, "Role"))

\* both reads of deploy have completed
ReadsDone ==
    /\ deployP # NoPromise
    /\ "readConfig" \notin pending
    /\ "readSecrets" \notin pending

\* C9: no remote call is issued before both documents are loaded and valid,
\* and once both reads have completed with a document missing, not JSON, of
\* the wrong shape or with an empty required field, deploy is rejected and
\* has issued no remote call.
C9_InvalidDocumentRejects ==
    /\ calls # <<>> => (ConfigFileValid /\ SecretsFileValid /\ ReadsDone)
    /\ (ReadsDone /\ ~(ConfigFileValid /\ SecretsFileValid))
           => (deployP.st = "rejected" /\ calls = <<>>)

\* C16: the client's credentials follow a strict priority: a non-empty
\* profile selects the profile credentials and no explicit key is set;
\* otherwise both keys are set when both are non-empty; otherwise neither the
\* credentials nor a key is set.
C16_CredentialPriority ==
    lambda # Undef =>
        LET profile == Get(lambdaSecrets, "profile")
            id == Get(lambdaSecrets, "accessKeyId")
            key == Get(lambdaSecrets, "secretAccessKey")
        IN  IF profile # Str("")
            THEN /\ Get(lambda, "credentials") = Obj(<< <<"profile", profile>> >>)
                 /\ ~HasOwn(lambda, "accessKeyId")
                 /\ ~HasOwn(lambda, "secretAccessKey")
            ELSE IF id # Str("") /\ key # Str("")
            THEN /\ ~HasOwn(lambda, "credentials")
                 /\ Get(lambda, "accessKeyId") = id
                 /\ Get(lambda, "secretAccessKey") = key
            ELSE /\ ~HasOwn(lambda, "credentials")
                 /\ ~HasOwn(lambda, "accessKeyId")
                 /\ ~HasOwn(lambda, "secretAccessKey")

\* the client was built from secrets that hold a profile and both keys
C16_Witness ==
    /\ lambda # Undef
    /\ Get(lambdaSecrets, "profile") = Str("dev")
    /\ Get(lambdaSecrets, "accessKeyId") = Str("AKIA")
    /\ Get(lambdaSecrets, "secretAccessKey") = Str("shh")
    /\ HasOwn(lambda, "credentials")
    /\ ~HasOwn(lambda, "accessKeyId")

\* the callbacks of an operation of the batch that have run
Answers(op) == { c \in completed : c.op = op }

\* C18: with updateConfig set the two operations of the batch run side by
\* side: both are launched by the same step, so the archive read of the code
\* update is under way while updateFunctionConfiguration is outstanding; and
\* neither is cancelled by the other's failure: a read archive is followed by
\* the dry run, a dry run whose hash differs by the real update, and the
\* configuration update settles by its own answer, whatever deploy's promise
\* has become meanwhile.
C18_BatchRunsConcurrently ==
    (Found /\ OptionSet("updateConfig")) =>
        /\ configP # NoPromise /\ codeP # NoPromise
        /\ (ArchiveNamed(lambdaCfg) /\ Answers("updateFunctionConfiguration") = {}
                /\ Answers("codeArchive") = {})
               => {"updateConfig", "codeArchive"} \subseteq pending
        /\ (\E c \in Answers("codeArchive") : c.err = Null)
               => Cardinality(CodeCalls(TRUE)) = 1
        /\ \A c \in DryRunAnswers :
               (Snapshot # Undef
                    /\ Get(c.data, "CodeSha256") # Get(Snapshot, "CodeSha256"))
                   => Cardinality(CodeCalls(FALSE)) = 1
        /\ \A c \in Answers("updateFunctionConfiguration") :
               configP.st = IF Truthy(c.err) THEN "rejected" ELSE "fulfilled"

\* deploy was rejected with the configuration update's error, and the real
\* code update was issued and answered without error all the same
C18_Witness ==
    /\ OptionSet("updateConfig")
    /\ deployP = Rejected(Str("Error updating function configuration"))
    /\ Cardinality(CodeCalls(FALSE)) = 1
    /\ \E c \in Answers("realUpdate") : c.err = Null
    /\ codeP.st = "fulfilled"

\* the remote calls whose callback has yet to run
Outstanding ==
    pending \cap {"getFunction", "createFunction", "updateConfig", "dryRun",
                  "realUpdate"}

\* C20: deploy is fulfilled only when no remote call it issued is still
\* outstanding and none of its create or update calls has failed.
C20_FulfilledAfterCalls ==
    deployP.st = "fulfilled" =>
        /\ Outstanding = {}
        /\ \A c \in completed :
               c.op \in {"createFunction", "updateFunctionConfiguration",
                         "dryRun", "realUpdate"} => c.err = Null

\* both documents of test have been read and accepted
TestDocumentsRead ==
    testCfgP.st = "fulfilled" /\ testTestsP.st = "fulfilled"

\* the number of dots of a string
Dots(str) ==
    Cardinality({ i \in 1..Len(CharsOf(str)) : CharsOf(str)[i] = "." })

\* C12: once test has read both documents, a Handler that is not exactly two
\* dot-separated tokens (it has no dot, or more than one) makes test reject
\* with 'Invalid handler', no module load having been attempted and no
\* handler invocation made.
C12_InvalidHandlerBeforeLoad ==
    (TestDocumentsRead /\ Dots(Get(lambdaCfg, "Handler").s) # 1) =>
        /\ testP = Rejected(Str("Invalid handler"))
        /\ loads = <<>>
        /\ invoked = <<>>

\* test has rejected a Handler of three tokens given a document with events
C12_Witness ==
    /\ TestDocumentsRead
    /\ Get(lambdaCfg, "Handler") = Str("a.b.c")
    /\ Len(lambdaTests.a) > 0 /\ Len(EventsOf(lambdaTests.a[1])) > 0
    /\ testP = Rejected(Str("Invalid handler"))

\* runTests has reached its loop
LoopReached == TestDocumentsRead /\ runTests(lambdaCfg).thrown = Undef

\* the invocations whose callback has reported an error
Failed == { k \in 1..Len(eventP) : eventP[k].st = "rejected" }

\* C13: in a test run that has reached the loop, test's promise is fulfilled
\* exactly when every invocation has called back without an error, and it is
\* rejected exactly when some invocation has reported an error, with the
\* error of the invocation that failed first.
C13_FulfilsIffAllSucceed ==
    LoopReached =>
        /\ testP.st = "fulfilled"
               <=> \A k \in 1..Len(eventP) : eventP[k].st = "fulfilled"
        /\ testP.st = "rejected" <=> Failed # {}
        /\ Failed # {} => testP = Rejected(firstErr)

\* two invocations have failed, the later-issued one first, and test is rejected
\* with that one's error
C13_Witness ==
    /\ LoopReached
    /\ Cardinality(Failed) >= 2
    /\ \E k \in Failed : k > 1 /\ eventP[k].v = firstErr
    /\ testP = Rejected(firstErr)

\* the positions in invoked of the invocations of event j of test case i
InvocationsOf(i, j) ==
    { k \in 1..Len(invoked) : invoked[k].test = i /\ invoked[k].event = j }

\* C19: in a test run that has reached the loop the handler has been invoked
\* exactly once for every event of every test case, with that event and that
\* test case's context, and not otherwise, whatever the outcome of the other
\* invocations; a test case without events has no invocation.
C19_OneInvocationPerEvent ==
    LoopReached =>
        /\ \A i \in 1..Len(lambdaTests.a) :
               \A j \in 1..Len(EventsOf(lambdaTests.a[i])) :
                   /\ Cardinality(InvocationsOf(i, j)) = 1
                   /\ \A k \in InvocationsOf(i, j) :
                          /\ invoked[k].context = Get(lambdaTests.a[i], "context")
                          /\ invoked[k].arg = EventsOf(lambdaTests.a[i])[j]
        /\ \A k \in 1..Len(invoked) :
               /\ invoked[k].test \in 1..Len(lambdaTests.a)
               /\ invoked[k].event
                      \in 1..Len(EventsOf(lambdaTests.a[invoked[k].test]))
        /\ Len(eventP) = Len(invoked)

\* the first test case has no event, the second has two; the first has
\* failed and the second has been called back all the same
C19_Witness ==
    /\ LoopReached
    /\ Len(lambdaTests.a) = 2
    /\ EventsOf(lambdaTests.a[1]) = <<>>
    /\ Len(invoked) = 2
    /\ invoked[1].test = 2 /\ invoked[2].test = 2
    /\ eventP[1].st = "rejected"
    /\ eventP[2].st = "fulfilled"

\* the writes issued by call r of init
RunWrites(r) == { k \in 1..Len(writes) : writes[k].run = r }

\* the three read callbacks of call r of init have run
RunReadsDone(r) ==
    r < initRuns \/ \A i \in 1..3 : <<"read", i>> \notin initPending

AllMissing == <<Missing, Missing, Missing>>

\* C14: a call of init that finds none of the three files has, once its reads
\* have failed, issued one write for each file, of that file's default
\* document, and once the writes have succeeded the files hold the defaults;
\* each default, read back, passes its own validator; a call of init that
\* finds the three defaults issues no write and is fulfilled with them.
C14_InitWritesValidDefaults ==
    /\ \A i \in 1..3 :
           readObject(DefaultFiles[i], InitFiles[i], InitFiles[i])
               = Fulfilled(createObject(InitFiles[i]))
    /\ \A r \in 1..initRuns :
           /\ (startFiles[r] = AllMissing /\ RunReadsDone(r)) =>
                  /\ Cardinality(RunWrites(r)) = 3
                  /\ \A i \in 1..3 : \E k \in RunWrites(r) :
                         /\ writes[k].file = InitFiles[i]
                         /\ writes[k].data = DefaultFiles[i]
           /\ (startFiles[r] = AllMissing /\ r = initRuns /\ initPending = {}
                   /\ initP.st = "fulfilled") =>
                  /\ Files = DefaultFiles
                  /\ initP.v = Arr([i \in 1..3 |->
                                 Fmt("File % has been written", InitFiles[i])])
           /\ (startFiles[r] = DefaultFiles /\ RunReadsDone(r)) =>
                  /\ RunWrites(r) = {}
                  /\ r = initRuns =>
                         initP = Fulfilled(Arr([i \in 1..3 |->
                                     createObject(InitFiles[i])]))

\* a first init found nothing and wrote the three defaults, a second found
\* them, read them and wrote nothing
C14_Witness ==
    /\ initRuns = 2
    /\ startFiles[1] = AllMissing
    /\ startFiles[2] = DefaultFiles
    /\ initPending = {}
    /\ initP.st = "fulfilled"
    /\ Len(writes) = 3

\* the three files after a step
FilesNext == <<cfgFile', secFile', testsFile'>>

\* C15 as stated: no step changes a file that exists; a file is written
\* only when it is missing.
C15_WrittenOnlyWhenAbsent ==
    [][\A i \in 1..3 : Files[i] # Missing => FilesNext[i] = Files[i]]_vars

\* C15: a file changes only in the fs.writeFile callback of init for that
\* file, only when init's read of it fails (it is missing, is not JSON, or
\* holds a truthy value of the wrong shape), and it then holds the default
\* document; no step of deploy or test changes a file, and a file whose read
\* does not fail is left as it is.
C15_WrittenOnlyWhenReadFails ==
    [][\A i \in 1..3 :
           FilesNext[i] # Files[i] =>
               /\ <<"write", i>> \in initPending
               /\ <<"write", i>> \notin initPending'
               /\ readObject(Files[i], InitFiles[i], InitFiles[i]).st = "rejected"
               /\ FilesNext[i] = DefaultFiles[i]]_vars

\* init has replaced a config file that was not JSON by the default and has
\* left a valid secrets document as it was
C15_Witness ==
    /\ initRuns = 1
    /\ initPending = {}
    /\ startFiles[1][1] = BadJson
    /\ cfgFile = DefaultFiles[1]
    /\ startFiles[1][2] = Json(SecretsDoc("eu-west-1", "dev", "", "", "role", X1))
    /\ secFile = startFiles[1][2]

\* a promise that has been fulfilled or rejected
Settled(p) == p.st \in {"fulfilled", "rejected"}

\* C17: every read whose fs.readFile callback has run has settled its
\* promise, and an operation none of whose callbacks is outstanding has
\* settled the promise it returned.
C17_EveryReadSettles ==
    /\ deployP # NoPromise =>
           /\ "readConfig" \notin pending => Settled(cfgP)
           /\ "readSecrets" \notin pending => Settled(secP)
           /\ pending = {} => Settled(deployP)
    /\ testP # NoPromise =>
           /\ "readConfig" \notin testReads => Settled(testCfgP)
           /\ "readTests" \notin testReads => Settled(testTestsP)
           /\ (testReads = {} /\ \A k \in 1..Len(eventP) : Settled(eventP[k]))
                  => Settled(testP)
    /\ \A i \in 1..Len(checkP) :
           (<<"read", i>> \notin initPending /\ <<"write", i>> \notin initPending)
               => Settled(checkP[i])
    /\ (initRuns > 0 /\ initPending = {}) => Settled(initP)

\* C21: every real updateFunctionCode call carries the ZipFile of the dry-run
\* call before it, which is the archive as readArchive read it, and the same
\* FunctionName and Publish.
C21_RealUploadsArchive ==
    \A i \in CodeCalls(FALSE) :
        /\ \E j \in CodeCalls(TRUE) :
               /\ j < i
               /\ \A k \in {"ZipFile", "FunctionName", "Publish"} :
                      Get(calls[i].params, k) = Get(calls[j].params, k)
        /\ \E c \in Answers("codeArchive") :
               c.err = Null /\ Get(calls[i].params, "ZipFile") = c.data

\* getFunction has failed with an error other than not-found
GetFunctionFailed ==
    \E c \in Answers("getFunction") :
        Truthy(c.err) /\ Get(c.err, "code") # Str("ResourceNotFoundException")

\* C22: once getFunction has failed with an error other than not-found,
\* deploy is rejected with 'Lambda getFunction Error', and no createFunction,
\* updateFunctionConfiguration or updateFunctionCode call is or will be
\* issued (none has been, and no callback is outstanding), whatever the
\* options.
C22_OtherErrorRejectsWithoutCalls ==
    GetFunctionFailed =>
        /\ deployP = Rejected(Str("Lambda getFunction Error"))
        /\ CallsOf("createFunction") = {}
        /\ CallsOf("updateFunctionConfiguration") = {}
        /\ CallsOf("updateFunctionCode") = {}
        /\ pending = {}
        /\ configP = NoPromise /\ codeP = NoPromise

\* getFunction has failed with a service error under create and updateConfig
C22_Witness ==
    /\ GetFunctionFailed
    /\ OptionSet("create") /\ OptionSet("updateConfig")
    /\ Len(calls) = 1
    /\ deployP = Rejected(Str("Lambda getFunction Error"))

====
